---- MODULE Spec2Model ----
(***************************************************************************)
(* A model of pyms.Peak.Class.Peak (src/pyms/Peak/Class.py).               *)
(*                                                                         *)
(* Python values are records [t, v, items]: t is the Python type, v the    *)
(* number carried by an int (as is) or by a float (in thousandths, so that *)
(* FloatV(50500) is 50.5) or the length of a str, items the elements of a  *)
(* list, tuple or dict.  A MassSpectrum object is a reference              *)
(* [t |-> "MassSpectrum", v |-> o] into heap, so that two holders of the   *)
(* same object see each other's writes.  Masses in a mass_list and rt are  *)
(* floats in thousandths, intensities in a mass_spec are non-negative      *)
(* integers.  Only finite numbers are modelled (no NaN, no infinity).      *)
(* Python indexes from 0, sequences here from 1: index i here is index     *)
(* i - 1 of the code.                                                      *)
(***************************************************************************)
EXTENDS Integers, Sequences, FiniteSets, TLC

VARIABLES peaks, heap, last

vars == <<peaks, heap, last>>

\* ------------------------------------------------------------- bounds
\* Largest num_ions passed to top_ions.
MaxIons == 3

\* ------------------------------------------------------------- values
None == [t |-> "None", v |-> 0, items |-> <<>>]
IntV(n) == [t |-> "int", v |-> n, items |-> <<>>]
FloatV(h) == [t |-> "float", v |-> h, items |-> <<>>]
StrV(n) == [t |-> "str", v |-> n, items |-> <<>>]
ListV(s) == [t |-> "list", v |-> 0, items |-> s]
TupleV(s) == [t |-> "tuple", v |-> 0, items |-> s]
DictV(s) == [t |-> "dict", v |-> 0, items |-> s]
MSRef(o) == [t |-> "MassSpectrum", v |-> o, items |-> <<>>]
MatrixV == [t |-> "IntensityMatrix", v |-> 0, items |-> <<>>]

\* isinstance(x, (int, float))
IsNumber(x) == x.t \in {"int", "float"}
\* isinstance(x, int)
IsInt(x) == x.t = "int"
\* isinstance(x, MassSpectrum)
IsMassSpectrum(x) == x.t = "MassSpectrum"
\* pyms.Utils.Utils.is_sequence
is_sequence(x) == x.t \in {"list", "tuple"}
\* isinstance(x, IntensityMatrix)
IsIntensityMatrix(x) == x.t = "IntensityMatrix"
\* The value of a number, in thousandths (the common scale of int and float).
Milli(x) == IF x.t = "int" THEN 1000 * x.v ELSE x.v
\* int(f) for a float f of m thousandths: truncation towards zero.
IntOfMilli(m) == IF m >= 0 THEN m \div 1000 ELSE -((-m) \div 1000)
\* int(x) for a number x.
PyInt(x) == IntOfMilli(Milli(x))
\* f"{rt:.2f}" for rt in thousandths: the hundredths, rounded to nearest
\* (the inputs drawn are no ties).
Fmt2f(rt) == (rt + 5) \div 10

RECURSIVE SeqMin(_)
SeqMin(s) ==
    IF Len(s) = 1 THEN s[1]
    ELSE LET m == SeqMin(Tail(s)) IN IF s[1] <= m THEN s[1] ELSE m
RECURSIVE SeqMax(_)
SeqMax(s) ==
    IF Len(s) = 1 THEN s[1]
    ELSE LET m == SeqMax(Tail(s)) IN IF s[1] >= m THEN s[1] ELSE m
Abs(x) == IF x >= 0 THEN x ELSE -x

\* ------------------------------------------------------------- make_UID
\* The scan of make_UID from index ii on: st = [best, best_ii, best2_ii].
RECURSIVE UIDScan(_, _, _)
UIDScan(mass_spec, ii, st) ==
    IF ii > Len(mass_spec) THEN st
    ELSE IF mass_spec[ii] > st.best
         THEN UIDScan(mass_spec, ii + 1,
                      [best |-> mass_spec[ii], best_ii |-> ii, best2_ii |-> st.best_ii])
         ELSE UIDScan(mass_spec, ii + 1, st)

\* make_UID on a peak pk: [exc, UID].  The UID string is the sequence of
\* its dash-separated fields, the last one rt in hundredths.
make_UID(pk, h) ==
    IF pk.mass_spectrum # None
    THEN LET mass_list == h[pk.mass_spectrum.v].mass_list
             mass_spec == h[pk.mass_spectrum.v].mass_spec
             st == UIDScan(mass_spec, 1, [best |-> 0, best_ii |-> 1, best2_ii |-> 1])
         IN  IF Len(mass_spec) = 0 THEN [exc |-> "IndexError", UID |-> <<>>]
             ELSE IF st.best = 0 THEN [exc |-> "ZeroDivisionError", UID |-> <<>>]
             ELSE [exc |-> "ok",
                   UID |-> << IntOfMilli(mass_list[st.best_ii]),
                              IntOfMilli(mass_list[st.best2_ii]),
                              (100 * mass_spec[st.best2_ii]) \div st.best,
                              Fmt2f(pk.rt) >>]
    ELSE IF pk.ic_mass # None
    THEN IF IsNumber(pk.ic_mass)
         THEN [exc |-> "ok", UID |-> << PyInt(pk.ic_mass), Fmt2f(pk.rt) >>]
         ELSE IF pk.ic_mass.t = "str" THEN [exc |-> "ValueError", UID |-> <<>>]
         ELSE [exc |-> "TypeError", UID |-> <<>>]
    ELSE [exc |-> "ok", UID |-> << Fmt2f(pk.rt) >>]

\* The end of a handler that has written pk and h and then calls make_UID:
\* the writes stay when make_UID raises, _UID is assigned when it does not.
ThenMakeUID(pk, h) ==
    LET r == make_UID(pk, h)
    IN  [exc |-> r.exc,
         peak |-> IF r.exc = "ok" THEN [pk EXCEPT !.UID = r.UID] ELSE pk,
         heap |-> h, ret |-> None]

\* A handler that raises exc, leaving the peak pk and the heap h.
Raise(exc, pk, h) == [exc |-> exc, peak |-> pk, heap |-> h, ret |-> None]
\* A handler that returns ret, leaving the peak pk and the heap h.
Return(ret, pk, h) == [exc |-> "ok", peak |-> pk, heap |-> h, ret |-> ret]

\* ------------------------------------------------------------- setters
\* An area setter that accepts 0.
area_set_accepts_zero(pk, h, value) ==
    IF ~IsNumber(value) THEN Raise("TypeError", pk, h)
    ELSE IF Milli(value) < 0 THEN Raise("ValueError", pk, h)
    ELSE Return(None, [pk EXCEPT !.area = value], h)

\* Peak.area (setter)
area_set(pk, h, value) ==
    IF ~IsNumber(value) THEN Raise("TypeError", pk, h)
    ELSE IF Milli(value) <= 0 THEN Raise("ValueError", pk, h)
    ELSE Return(None, [pk EXCEPT !.area = value], h)

\* A bounds setter that stores the sequence as given (no tuple()).
bounds_set_as_given(pk, h, value) ==
    IF ~is_sequence(value) THEN Raise("TypeError", pk, h)
    ELSE IF Len(value.items) # 3 THEN Raise("ValueError", pk, h)
    ELSE IF \E index \in 1..3 : ~IsInt(value.items[index]) THEN Raise("TypeError", pk, h)
    ELSE Return(None, [pk EXCEPT !.pt_bounds = value], h)

\* Peak.bounds (setter)
bounds_set(pk, h, value) ==
    IF ~is_sequence(value) THEN Raise("TypeError", pk, h)
    ELSE IF Len(value.items) # 3 THEN Raise("ValueError", pk, h)
    ELSE IF \E index \in 1..3 : ~IsInt(value.items[index]) THEN Raise("TypeError", pk, h)
    ELSE Return(None, [pk EXCEPT !.pt_bounds = TupleV(SubSeq(value.items, 1, 3))], h)

\* Peak.set_bounds
set_bounds(pk, h, left, apex, right) == bounds_set(pk, h, TupleV(<<left, apex, right>>))

\* Peak.bounds (getter)
bounds_get(pk, h) == Return(pk.pt_bounds, pk, h)

\* An ic_mass setter that keeps the mass spectrum.
ic_mass_set_keeps_spectrum(pk, h, value) ==
    IF ~IsNumber(value) THEN Raise("TypeError", pk, h)
    ELSE ThenMakeUID([pk EXCEPT !.ic_mass = value], h)

\* Peak.ic_mass (setter)
ic_mass_set(pk, h, value) ==
    IF ~IsNumber(value) THEN Raise("TypeError", pk, h)
    ELSE ThenMakeUID([pk EXCEPT !.ic_mass = value, !.mass_spectrum = None], h)

\* Peak.mass_spectrum (setter)
mass_spectrum_set(pk, h, value) ==
    IF ~IsMassSpectrum(value) THEN Raise("TypeError", pk, h)
    ELSE ThenMakeUID([pk EXCEPT !.mass_spectrum = value, !.ic_mass = None], h)

\* Peak.ion_areas (setter); list(value.keys())[0] raises IndexError on {}.
ion_areas_set(pk, h, value) ==
    IF value.t # "dict" THEN Raise("TypeError", pk, h)
    ELSE IF Len(value.items) = 0 THEN Raise("IndexError", pk, h)
    ELSE IF ~IsNumber(value.items[1][1]) THEN Raise("TypeError", pk, h)
    ELSE Return(None, [pk EXCEPT !.ion_areas = value], h)

\* Two dict keys are the same key: equal values (73 == 73.0 in Python).
SameKey(a, b) == IF IsNumber(a) /\ IsNumber(b) THEN Milli(a) = Milli(b) ELSE a = b

\* d[key] = value on the items of a dict (insertion order kept).
DictStore(items, key, value) ==
    IF \E i \in 1..Len(items) : SameKey(items[i][1], key)
    THEN [i \in 1..Len(items) |->
             IF SameKey(items[i][1], key) THEN <<items[i][1], value>> ELSE items[i]]
    ELSE Append(items, <<key, value>>)

\* Peak.set_ion_area
set_ion_area(pk, h, ion, area) ==
    IF ~IsInt(ion) THEN Raise("TypeError", pk, h)
    ELSE IF ~IsNumber(area) THEN Raise("TypeError", pk, h)
    ELSE Return(None,
                [pk EXCEPT !.ion_areas = DictV(DictStore(pk.ion_areas.items, ion, area))], h)

\* ------------------------------------------------------------- crop_mass
\* A crop loop that leaves out a mass equal to mass_min.
RECURSIVE CropLoopStrict(_, _, _, _, _)
CropLoopStrict(mass_list, mass_spec, ii, mass_min, mass_max) ==
    IF ii > Len(mass_list) THEN [mass_list |-> <<>>, mass_spec |-> <<>>]
    ELSE LET rest == CropLoopStrict(mass_list, mass_spec, ii + 1, mass_min, mass_max)
             mass == mass_list[ii]
         IN  IF mass_min < mass /\ mass <= mass_max
             THEN [mass_list |-> <<mass>> \o rest.mass_list,
                   mass_spec |-> <<mass_spec[ii]>> \o rest.mass_spec]
             ELSE rest

\* The loop of crop_mass from index ii on: the masses within
\* [mass_min, mass_max] (thousandths) and the intensities at their indices.
RECURSIVE CropLoop(_, _, _, _, _)
CropLoop(mass_list, mass_spec, ii, mass_min, mass_max) ==
    IF ii > Len(mass_list) THEN [mass_list |-> <<>>, mass_spec |-> <<>>]
    ELSE LET rest == CropLoop(mass_list, mass_spec, ii + 1, mass_min, mass_max)
             mass == mass_list[ii]
         IN  IF mass_min <= mass /\ mass <= mass_max
             THEN [mass_list |-> <<mass>> \o rest.mass_list,
                   mass_spec |-> <<mass_spec[ii]>> \o rest.mass_spec]
             ELSE rest

\* Peak.crop_mass; min() of an empty mass_list raises ValueError.
crop_mass(pk, h, mass_min, mass_max) ==
    IF pk.mass_spectrum = None THEN Raise("ValueError", pk, h)
    ELSE IF ~IsNumber(mass_min) \/ ~IsNumber(mass_max) THEN Raise("TypeError", pk, h)
    ELSE IF Milli(mass_min) >= Milli(mass_max) THEN Raise("ValueError", pk, h)
    ELSE LET o == pk.mass_spectrum.v
             mass_list == h[o].mass_list
         IN  IF Len(mass_list) = 0 THEN Raise("ValueError", pk, h)
             ELSE IF Milli(mass_min) < SeqMin(mass_list) THEN Raise("ValueError", pk, h)
             ELSE IF Milli(mass_max) > SeqMax(mass_list) THEN Raise("ValueError", pk, h)
             ELSE LET new == CropLoop(mass_list, h[o].mass_spec, 1,
                                      Milli(mass_min), Milli(mass_max))
                      h2 == [h EXCEPT ![o] = new]
                  IN  IF Len(new.mass_list) = 0 THEN Raise("ValueError", pk, h2)
                      ELSE ThenMakeUID(pk, h2)

\* ------------------------------------------------------------- null_mass
\* A loop of null_mass that takes a later entry at an equal distance.
RECURSIVE NullLoopLast(_, _, _, _)
NullLoopLast(mass_list, mass, ii, st) ==
    IF ii > Len(mass_list) THEN st
    ELSE LET tmp == Abs(mass_list[ii] - mass)
         IN  IF tmp <= st.best
             THEN NullLoopLast(mass_list, mass, ii + 1, [best |-> tmp, ix |-> ii])
             ELSE NullLoopLast(mass_list, mass, ii + 1, st)

\* The loop of null_mass from index ii on: st = [best, ix].
RECURSIVE NullLoop(_, _, _, _)
NullLoop(mass_list, mass, ii, st) ==
    IF ii > Len(mass_list) THEN st
    ELSE LET tmp == Abs(mass_list[ii] - mass)
         IN  IF tmp < st.best
             THEN NullLoop(mass_list, mass, ii + 1, [best |-> tmp, ix |-> ii])
             ELSE NullLoop(mass_list, mass, ii + 1, st)

\* Peak.null_mass; min() of an empty mass_list raises ValueError.
null_mass(pk, h, mass) ==
    IF pk.mass_spectrum = None THEN Raise("NameError", pk, h)
    ELSE IF ~IsNumber(mass) THEN Raise("TypeError", pk, h)
    ELSE LET o == pk.mass_spectrum.v
             mass_list == h[o].mass_list
         IN  IF Len(mass_list) = 0 THEN Raise("ValueError", pk, h)
             ELSE IF Milli(mass) < SeqMin(mass_list) \/ Milli(mass) > SeqMax(mass_list)
             THEN Raise("IndexError", pk, h)
             ELSE LET st == NullLoop(mass_list, Milli(mass), 1,
                                     [best |-> SeqMax(mass_list), ix |-> 1])
                  IN  ThenMakeUID(pk, [h EXCEPT ![o].mass_spec[st.ix] = 0])

\* ------------------------------------------------------------- IntensityMatrix
\* The IntensityMatrix handed to find_mass_spectrum: its time list
\* (thousandths), its mass list and one intensity row per scan.
MatrixTimes == <<0, 45000, 90000>>
MatrixMasses == <<50000, 60500, 70000>>
MatrixRows == << <<1, 5, 3>>, <<0, 0, 0>>, <<4, 2, 4>> >>

\* IntensityMatrix.get_index_at_time: the index (from 0) of the scan
\* nearest in time, the first one among equally near ones.
get_index_at_time(time) ==
    CHOOSE i \in 0..(Len(MatrixTimes) - 1) :
        /\ \A j \in 0..(Len(MatrixTimes) - 1) :
              Abs(MatrixTimes[i + 1] - time) <= Abs(MatrixTimes[j + 1] - time)
        /\ \A j \in 0..(i - 1) :
              Abs(MatrixTimes[j + 1] - time) > Abs(MatrixTimes[i + 1] - time)

\* IntensityMatrix.get_ms_at_index: a new MassSpectrum, or IndexError.
get_ms_at_index(ix) ==
    IF ix < 0 \/ ix >= Len(MatrixRows)
    THEN [exc |-> "IndexError", ms |-> [mass_list |-> <<>>, mass_spec |-> <<>>]]
    ELSE [exc |-> "ok", ms |-> [mass_list |-> MatrixMasses, mass_spec |-> MatrixRows[ix + 1]]]

\* A find_mass_spectrum that looks the scan up by rt whatever from_bounds is.
find_mass_spectrum_by_rt(pk, h, data, from_bounds, new) ==
    IF ~IsIntensityMatrix(data) THEN Raise("TypeError", pk, h)
    ELSE IF from_bounds /\ pk.pt_bounds = None THEN Raise("NameError", pk, h)
    ELSE LET pt_apex == get_index_at_time(pk.rt)
             got == get_ms_at_index(pt_apex)
         IN  IF got.exc # "ok" THEN Raise(got.exc, pk, h)
             ELSE ThenMakeUID([pk EXCEPT !.mass_spectrum = MSRef(new), !.ic_mass = None],
                              [h EXCEPT ![new] = got.ms])

\* Peak.find_mass_spectrum; new is the heap slot of the MassSpectrum object
\* that get_ms_at_index creates.
find_mass_spectrum(pk, h, data, from_bounds, new) ==
    IF ~IsIntensityMatrix(data) THEN Raise("TypeError", pk, h)
    ELSE IF from_bounds /\ pk.pt_bounds = None THEN Raise("NameError", pk, h)
    ELSE LET pt_apex == IF from_bounds THEN pk.pt_bounds.items[2].v
                        ELSE get_index_at_time(pk.rt)
             got == get_ms_at_index(pt_apex)
         IN  IF got.exc # "ok" THEN Raise(got.exc, pk, h)
             ELSE ThenMakeUID([pk EXCEPT !.mass_spectrum = MSRef(new), !.ic_mass = None],
                              [h EXCEPT ![new] = got.ms])

\* ------------------------------------------------------------- top_ions
\* (intensity, mass) tuples compared as Python compares tuples.
PairLess(a, b) == a[1] < b[1] \/ (a[1] = b[1] /\ a[2] < b[2])

\* sorted(): insertion of x into the sorted sequence s, after its equals.
RECURSIVE Insert(_, _)
Insert(s, x) ==
    IF Len(s) = 0 THEN <<x>>
    ELSE IF PairLess(x, s[1]) THEN <<x>> \o s
    ELSE <<s[1]>> \o Insert(Tail(s), x)

RECURSIVE Sorted(_)
Sorted(s) == IF Len(s) = 0 THEN <<>> ELSE Insert(Sorted(SubSeq(s, 1, Len(s) - 1)), s[Len(s)])

\* s[k:] of Python, for any integer k.
SliceFrom(s, k) ==
    LET start == IF k < 0 THEN (IF Len(s) + k > 0 THEN Len(s) + k ELSE 0)
                 ELSE (IF k < Len(s) THEN k ELSE Len(s))
    IN  SubSeq(s, start + 1, Len(s))

\* Peak.top_ions: the masses of sorted_ic[-num_ions:].
top_ions(pk, h, num_ions) ==
    IF ~IsInt(num_ions) THEN Raise("TypeError", pk, h)
    ELSE IF pk.mass_spectrum = None THEN Raise("ValueError", pk, h)
    ELSE LET intensity_list == h[pk.mass_spectrum.v].mass_spec
             mass_list == h[pk.mass_spectrum.v].mass_list
             ic_tuple == [i \in 1..Len(mass_list) |-> <<intensity_list[i], mass_list[i]>>]
             top_ic == SliceFrom(Sorted(ic_tuple), -(num_ions.v))
         IN  Return(ListV([i \in 1..Len(top_ic) |-> FloatV(top_ic[i][2])]), pk, h)

\* ------------------------------------------------------------- get_third_highest_mz
\* The loop of get_third_highest_mz from index ii on:
\* st = [best, best_ii, best2_ii, best3_ii].
RECURSIVE ThirdScan(_, _, _)
ThirdScan(mass_spec, ii, st) ==
    IF ii > Len(mass_spec) THEN st
    ELSE IF mass_spec[ii] > st.best
         THEN ThirdScan(mass_spec, ii + 1,
                        [best |-> mass_spec[ii], best_ii |-> ii,
                         best2_ii |-> st.best_ii, best3_ii |-> st.best2_ii])
         ELSE ThirdScan(mass_spec, ii + 1, st)

\* Peak.get_third_highest_mz; mass_list[0] of an empty list raises IndexError.
get_third_highest_mz(pk, h) ==
    IF pk.mass_spectrum # None
    THEN LET mass_list == h[pk.mass_spectrum.v].mass_list
             mass_spec == h[pk.mass_spectrum.v].mass_spec
             st == ThirdScan(mass_spec, 1,
                             [best |-> 0, best_ii |-> 1, best2_ii |-> 1, best3_ii |-> 1])
         IN  IF Len(mass_list) = 0 THEN Raise("IndexError", pk, h)
             ELSE Return(IntV(IntOfMilli(mass_list[st.best3_ii])), pk, h)
    ELSE Return(None, pk, h)

\* ------------------------------------------------------------- __init__
\* bool(x) of Python.
Truthy(x) ==
    CASE x.t = "None" -> FALSE
      [] x.t \in {"int", "float", "str"} -> x.v # 0
      [] x.t \in {"list", "tuple", "dict"} -> Len(x.items) > 0
      [] OTHER -> TRUE

\* Peak.__init__: [exc, peak, heap, ret]; the peak exists when exc = "ok".
Construct(rt, ms, minutes, outlier, h) ==
    LET blank == [is_outlier |-> outlier, rt |-> 0, pt_bounds |-> None, area |-> None,
                  ion_areas |-> DictV(<<>>), mass_spectrum |-> None, ic_mass |-> None,
                  UID |-> <<>>]
    IN  IF ~IsNumber(rt) THEN Raise("TypeError", blank, h)
        ELSE IF Truthy(ms) /\ ~IsMassSpectrum(ms) /\ ~IsNumber(ms)
        THEN Raise("TypeError", blank, h)
        ELSE LET secs == IF minutes THEN Milli(rt) * 60 ELSE Milli(rt)
                 pk == [blank EXCEPT !.rt = secs,
                            !.mass_spectrum = IF IsMassSpectrum(ms) THEN ms ELSE None,
                            !.ic_mass = IF IsMassSpectrum(ms) THEN None ELSE ms]
             IN  ThenMakeUID(pk, h)

\* ------------------------------------------------------------- heap
\* Slot 1 of the heap is the MassSpectrum object the caller built and keeps;
\* slot 1 + p is the object find_mass_spectrum created for peak p, which
\* only that peak refers to: it is freed when the peak drops it.
CallerObj == MSRef(1)
Free == [mass_list |-> <<>>, mass_spec |-> <<>>]
OwnSlot(p) == 1 + p
Collect(h, pks) ==
    [o \in DOMAIN h |->
        IF o = 1 \/ \E p \in DOMAIN pks : o = OwnSlot(p) /\ pks[p].mass_spectrum = MSRef(o)
        THEN h[o] ELSE Free]

\* ------------------------------------------------------------- inputs
\* The MassSpectrum objects the caller builds: mass_list, mass_spec.
Spectra == { [mass_list |-> <<50000, 60500, 70000>>, mass_spec |-> <<5, 0, 1>>] }
\* (rt, minutes) of the constructor: 12.346 s and 1.5 min.
RtInputs == { <<FloatV(12346), FALSE>>, <<FloatV(1500), TRUE>> }
MsInputs == { None, IntV(73), CallerObj }
\* The arguments of the calls, per operation: every error path and the
\* successful ones.  In (the lifecycle specification) varies the spectral
\* state, InF (the field specification) the fields area, bounds, ion_areas.
In ==
    [ area |-> { FloatV(2500), IntV(0), StrV(1) },
      bounds |-> { ListV(<<IntV(0), IntV(1), IntV(0)>>), ListV(<<IntV(0), IntV(1)>>),
                   ListV(<<IntV(0), FloatV(1500), IntV(0)>>), IntV(5) },
      apex |-> { IntV(1) },
      ic_mass |-> { IntV(73), FloatV(-1500), StrV(1) },
      mass_spectrum |-> { CallerObj, IntV(73) },
      ion_areas |-> { DictV(<<>>), DictV(<< <<IntV(73), IntV(10)>> >>),
                      DictV(<< <<StrV(1), IntV(10)>> >>), ListV(<<>>) },
      ion |-> { IntV(73), FloatV(73500) },
      ion_area |-> { IntV(10), StrV(1) },
      crop |-> { <<IntV(50), IntV(70)>>, <<IntV(50), FloatV(60500)>>,
                 <<FloatV(55000), IntV(70)>>,
                 <<FloatV(55000), IntV(58)>>, <<IntV(70), IntV(50)>>,
                 <<IntV(45), IntV(70)>>, <<IntV(50), IntV(75)>>, <<StrV(1), IntV(70)>> },
      null |-> { IntV(50), FloatV(58000), IntV(100), StrV(1) },
      data |-> { MatrixV, StrV(1) },
      num_ions |-> { IntV(n) : n \in 0..MaxIons } \cup { FloatV(2000) } ]
InF ==
    [ area |-> { FloatV(2500), IntV(3), IntV(0), FloatV(-1500), StrV(1), None },
      bounds |-> { ListV(<<IntV(0), IntV(1), IntV(0)>>), TupleV(<<IntV(1), IntV(7), IntV(1)>>),
                   ListV(<<IntV(0), IntV(1)>>), ListV(<<IntV(0), FloatV(1500), IntV(0)>>),
                   TupleV(<<IntV(0), IntV(1), IntV(0), IntV(2)>>), IntV(5), StrV(3) },
      apex |-> { IntV(2), FloatV(2000) },
      ic_mass |-> { IntV(73), StrV(1) },
      mass_spectrum |-> { CallerObj, IntV(73) },
      ion_areas |-> { DictV(<<>>), DictV(<< <<IntV(73), IntV(10)>> >>), ListV(<<>>) },
      ion |-> { IntV(73), FloatV(73500) },
      ion_area |-> { IntV(10), StrV(1) },
      crop |-> { <<IntV(50), IntV(70)>>, <<IntV(70), IntV(50)>> },
      null |-> { IntV(50), IntV(100) },
      data |-> { MatrixV, StrV(1) },
      num_ions |-> { IntV(2) } ]

\* ------------------------------------------------------------- actions
NoCall == [op |-> "__init__", peak |-> 1, args |-> <<>>, exc |-> "ok", ret |-> None]

\* The peaks the caller has constructed over the heap h0.
Constructed(h0) ==
    { c.peak : c \in { x \in { Construct(r[1], ms, r[2], FALSE, h0) :
                                  r \in RtInputs, ms \in MsInputs } : x.exc = "ok" } }

Init ==
    /\ heap \in { <<sp, Free>> : sp \in Spectra }
    /\ peaks \in [{1} -> Constructed(heap)]
    /\ last = NoCall

\* Peak p's handler op, called with args, ended as r.
Do(p, op, args, r) ==
    /\ peaks' = [peaks EXCEPT ![p] = r.peak]
    /\ heap' = Collect(r.heap, peaks')
    /\ last' = [op |-> op, peak |-> p, args |-> args, exc |-> r.exc, ret |-> r.ret]

SetArea(in) ==
    \E p \in DOMAIN peaks, value \in in.area :
        Do(p, "area", <<value>>, area_set(peaks[p], heap, value))
SetBounds(in) ==
    \E p \in DOMAIN peaks, value \in in.bounds :
        Do(p, "bounds", <<value>>, bounds_set(peaks[p], heap, value))
CallSetBounds(in) ==
    \E p \in DOMAIN peaks, apex \in in.apex :
        Do(p, "set_bounds", <<IntV(0), apex, IntV(0)>>,
           set_bounds(peaks[p], heap, IntV(0), apex, IntV(0)))
GetBounds ==
    \E p \in DOMAIN peaks : Do(p, "bounds_get", <<>>, bounds_get(peaks[p], heap))
SetIcMass(in) ==
    \E p \in DOMAIN peaks, value \in in.ic_mass :
        Do(p, "ic_mass", <<value>>, ic_mass_set(peaks[p], heap, value))
SetMassSpectrum(in) ==
    \E p \in DOMAIN peaks, value \in in.mass_spectrum :
        Do(p, "mass_spectrum", <<value>>, mass_spectrum_set(peaks[p], heap, value))
SetIonAreas(in) ==
    \E p \in DOMAIN peaks, value \in in.ion_areas :
        Do(p, "ion_areas", <<value>>, ion_areas_set(peaks[p], heap, value))
CallSetIonArea(in) ==
    \E p \in DOMAIN peaks, ion \in in.ion, area \in in.ion_area :
        Do(p, "set_ion_area", <<ion, area>>, set_ion_area(peaks[p], heap, ion, area))
CallCropMass(in) ==
    \E p \in DOMAIN peaks, a \in in.crop :
        Do(p, "crop_mass", <<a[1], a[2]>>, crop_mass(peaks[p], heap, a[1], a[2]))
CallNullMass(in) ==
    \E p \in DOMAIN peaks, mass \in in.null :
        Do(p, "null_mass", <<mass>>, null_mass(peaks[p], heap, mass))
CallFindMassSpectrum(in) ==
    \E p \in DOMAIN peaks, data \in in.data, from_bounds \in BOOLEAN :
        Do(p, "find_mass_spectrum", <<data, IntV(IF from_bounds THEN 1 ELSE 0)>>,
           find_mass_spectrum(peaks[p], heap, data, from_bounds, OwnSlot(p)))
CallTopIons(in) ==
    \E p \in DOMAIN peaks, num_ions \in in.num_ions :
        Do(p, "top_ions", <<num_ions>>, top_ions(peaks[p], heap, num_ions))
CallGetThirdHighestMz ==
    \E p \in DOMAIN peaks :
        Do(p, "get_third_highest_mz", <<>>, get_third_highest_mz(peaks[p], heap))

\* Any operation of a peak, its arguments drawn from in.
Calls(in) ==
    \/ SetArea(in)
    \/ SetBounds(in)
    \/ CallSetBounds(in)
    \/ GetBounds
    \/ SetIcMass(in)
    \/ SetMassSpectrum(in)
    \/ SetIonAreas(in)
    \/ CallSetIonArea(in)
    \/ CallCropMass(in)
    \/ CallNullMass(in)
    \/ CallFindMassSpectrum(in)
    \/ CallTopIons(in)
    \/ CallGetThirdHighestMz

\* The lifecycle of one peak.
Next == Calls(In)
Spec == Init /\ [][Next]_vars

\* The lifecycle of one peak, with more of the field values.
NextFields == Calls(InF)
SpecFields == Init /\ [][NextFields]_vars

\* ------------------------------------------------------------- shared MassSpectrum
\* Two peaks that the caller constructs over its one MassSpectrum object
\* and may set it on again.
InS ==
    [ mass_spectrum |-> { CallerObj },
      crop |-> { <<IntV(50), FloatV(60500)>>, <<IntV(70), IntV(50)>> },
      null |-> { IntV(50), FloatV(58000), IntV(100) } ]

InitShared ==
    /\ heap \in { <<sp, Free, Free>> : sp \in Spectra }
    /\ peaks \in [{1, 2} -> Constructed(heap)]
    /\ last = NoCall

NextShared ==
    \/ SetMassSpectrum(InS)
    \/ CallCropMass(InS)
    \/ CallNullMass(InS)
SpecShared == InitShared /\ [][NextShared]_vars

\* ------------------------------------------------------------- properties
\* The peak the last call was made on.
Called == peaks[last.peak]
Succeeded(op) == last.op = op /\ last.exc = "ok"
HasSpectrum(pk) == pk.mass_spectrum # None
\* The mass_list and mass_spec of a peak that has a mass spectrum.
MassList(pk, h) == h[pk.mass_spectrum.v].mass_list
MassSpec(pk, h) == h[pk.mass_spectrum.v].mass_spec
\* All of what a peak holds: its fields and the lists of its mass spectrum.
WholeState(pk, h) ==
    <<pk, IF HasSpectrum(pk) THEN h[pk.mass_spectrum.v] ELSE Free>>

\* C1: in every reachable state the stored UID of every peak is the string
\* make_UID computes from the peak's current rt and spectral state.
C1_UIDConsistent ==
    \A p \in DOMAIN peaks :
        LET r == make_UID(peaks[p], heap)
        IN  r.exc = "ok" /\ peaks[p].UID = r.UID

\* C2: at most one of mass_spectrum and ic_mass is set; after a successful
\* ic_mass set the mass spectrum is unset and ic_mass is the value given,
\* after a successful mass_spectrum set or find_mass_spectrum ic_mass is
\* unset and the mass spectrum is set.
C2_MutuallyExclusive ==
    /\ \A p \in DOMAIN peaks : ~(peaks[p].mass_spectrum # None /\ peaks[p].ic_mass # None)
    /\ Succeeded("ic_mass") =>
          Called.mass_spectrum = None /\ Called.ic_mass = last.args[1]
    /\ Succeeded("mass_spectrum") =>
          Called.ic_mass = None /\ Called.mass_spectrum = last.args[1]
    /\ Succeeded("find_mass_spectrum") =>
          Called.ic_mass = None /\ Called.mass_spectrum = MSRef(OwnSlot(last.peak))

\* C2's case: the peak held the caller's MassSpectrum (it has cropped or
\* nulled it, which nothing else does here) and an ic_mass set has cleared it.
C2_Witness ==
    /\ Succeeded("ic_mass")
    /\ heap[1] \notin Spectra
    /\ Called.mass_spectrum = None
    /\ Called.ic_mass = FloatV(-1500)

\* C3: a call that raises leaves the whole state of its peak as it was.
C3_ValidationBeforeMutation ==
    [][last'.exc # "ok" =>
          WholeState(peaks'[last'.peak], heap') = WholeState(peaks[last'.peak], heap)]_vars

\* The index of the highest intensity, the lowest one among equal maxima.
ArgMax(ms) ==
    CHOOSE i \in 1..Len(ms) :
        (\A j \in 1..Len(ms) : ms[j] <= ms[i]) /\ (\A j \in 1..(i - 1) : ms[j] < ms[i])
\* The indices of the second-highest intensity: the highest of the others.
SecondHighest(ms) ==
    LET others == (1..Len(ms)) \ {ArgMax(ms)}
    IN  { i \in others : \A j \in others : ms[j] <= ms[i] }

\* C4: for a peak with a mass spectrum (of two entries or more) whose
\* largest intensity is positive, make_UID gives int(mass1), int(mass2),
\* int(100 * intensity2 / intensity1) and rt to two decimals, where entry 1
\* has the highest intensity and entry 2 the second-highest of the spectrum.
C4_TopTwoUID ==
    \A p \in DOMAIN peaks :
        LET pk == peaks[p] IN
        HasSpectrum(pk) /\ Len(MassSpec(pk, heap)) >= 2
                        /\ SeqMax(MassSpec(pk, heap)) > 0 =>
            LET ml == MassList(pk, heap)
                ms == MassSpec(pk, heap)
                i1 == ArgMax(ms)
                r == make_UID(pk, heap)
            IN  /\ r.exc = "ok"
                /\ \E i2 \in SecondHighest(ms) :
                      r.UID = << IntOfMilli(ml[i1]), IntOfMilli(ml[i2]),
                                 (100 * ms[i2]) \div ms[i1], Fmt2f(pk.rt) >>

\* The (intensity, mass) pair of the entry of mass m (masses are distinct).
PairOf(ml, ms, m) == LET i == CHOOSE i \in 1..Len(ml) : ml[i] = m IN <<ms[i], m>>

\* C5: top_ions(n), n >= 0, on a peak with a mass spectrum returns
\* min(n, number of masses) masses, those of the pairs with the highest
\* intensities, in ascending order of (intensity, mass).
C5_TopIons ==
    last.op = "top_ions" /\ IsInt(last.args[1]) /\ last.args[1].v >= 0
                         /\ HasSpectrum(Called) =>
        LET ml == MassList(Called, heap)
            ms == MassSpec(Called, heap)
            n == last.args[1].v
            k == IF n < Len(ml) THEN n ELSE Len(ml)
            got == last.ret.items
        IN  /\ last.exc = "ok"
            /\ Len(got) = k
            /\ \A j \in 1..Len(got) : \E i \in 1..Len(ml) : got[j] = FloatV(ml[i])
            /\ \A j \in 1..(Len(got) - 1) :
                  PairLess(PairOf(ml, ms, got[j].v), PairOf(ml, ms, got[j + 1].v))
            /\ \A i \in 1..Len(ml) :
                  \/ \E j \in 1..Len(got) : got[j].v = ml[i]
                  \/ Len(got) = 0
                  \/ PairLess(<<ms[i], ml[i]>>, PairOf(ml, ms, got[1].v))

\* The intensities of a mass_spec, and the third highest of them.
Intensities(ms) == { ms[i] : i \in 1..Len(ms) }
ThirdHighest(ms) ==
    CHOOSE v \in Intensities(ms) : Cardinality({ w \in Intensities(ms) : w > v }) = 2

\* C6: get_third_highest_mz returns int() of a mass whose intensity is the
\* third highest of a mass_spec with three distinct intensities or more, and
\* None for a peak without a mass spectrum.
C6_ThirdHighestMz ==
    last.op = "get_third_highest_mz" =>
        IF HasSpectrum(Called)
        THEN LET ml == MassList(Called, heap)
                 ms == MassSpec(Called, heap)
             IN  Cardinality(Intensities(ms)) >= 3 =>
                    /\ last.exc = "ok"
                    /\ \E i \in 1..Len(ms) :
                          ms[i] = ThirdHighest(ms) /\ last.ret = IntV(IntOfMilli(ml[i]))
        ELSE last.exc = "ok" /\ last.ret = None

\* The indices of the masses of ml within [lo, hi], and the j-th of them.
Within(ml, lo, hi) == { i \in 1..Len(ml) : lo <= ml[i] /\ ml[i] <= hi }
NthOf(S, j) == CHOOSE i \in S : Cardinality({ x \in S : x < i }) = j - 1

\* C7: crop_mass(mass_min, mass_max) with mass_min < mass_max, both within
\* the mass range and at least one mass between them, leaves mass_list the
\* masses within [mass_min, mass_max] in their order and mass_spec the
\* intensities at the same indices; cropping to the lowest and the highest
\* mass changes neither list.
C7_CropMass ==
    [][\A p \in DOMAIN peaks :
          LET pk == peaks[p]
              lo == Milli(last'.args[1])
              hi == Milli(last'.args[2])
          IN  /\ last'.op = "crop_mass" /\ last'.peak = p
              /\ IsNumber(last'.args[1]) /\ IsNumber(last'.args[2])
              /\ HasSpectrum(pk) /\ Len(MassList(pk, heap)) > 0
              /\ lo < hi
              /\ SeqMin(MassList(pk, heap)) <= lo /\ hi <= SeqMax(MassList(pk, heap))
              /\ Within(MassList(pk, heap), lo, hi) # {}
              => LET ml == MassList(pk, heap)
                     ms == MassSpec(pk, heap)
                     kept == Within(ml, lo, hi)
                     k == Cardinality(kept)
                 IN  /\ peaks'[p].mass_spectrum = pk.mass_spectrum
                     /\ MassList(peaks'[p], heap') = [j \in 1..k |-> ml[NthOf(kept, j)]]
                     /\ MassSpec(peaks'[p], heap') = [j \in 1..k |-> ms[NthOf(kept, j)]]
                     /\ (lo = SeqMin(ml) /\ hi = SeqMax(ml) =>
                            MassList(peaks'[p], heap') = ml /\ MassSpec(peaks'[p], heap') = ms)
      ]_vars

\* C7's case: a crop_mass has removed the highest of three masses.
C7_Witness ==
    /\ last.op = "crop_mass" /\ last.args = <<IntV(50), FloatV(60500)>>
    /\ last.exc = "ok"
    /\ MassList(Called, heap) = <<50000, 60500>>
    /\ Len(MassSpec(Called, heap)) = 2

\* mass_list, mass_spec and UID of a peak.
SpectralState(pk, h) == <<IF HasSpectrum(pk) THEN h[pk.mass_spectrum.v] ELSE Free, pk.UID>>
PeakOps ==
    { "area", "bounds", "set_bounds", "ic_mass", "mass_spectrum", "ion_areas",
      "set_ion_area", "crop_mass", "null_mass", "find_mass_spectrum" }

\* C8: mass_list, mass_spec and UID of a peak change only in calls of that
\* peak's own setters and mutating methods.
C8_OnlyOwnMethods ==
    [][\A p \in DOMAIN peaks :
          SpectralState(peaks'[p], heap') # SpectralState(peaks[p], heap) =>
              last'.peak = p /\ last'.op \in PeakOps]_vars

\* C9: area is None or a strictly positive number; the area setter raises
\* TypeError for a non-number and ValueError for a number <= 0, keeping the
\* area; no other call changes area.
C9_AreaInv ==
    /\ \A p \in DOMAIN peaks :
          peaks[p].area = None \/ (IsNumber(peaks[p].area) /\ Milli(peaks[p].area) > 0)
    /\ last.op = "area" =>
          last.exc = (IF ~IsNumber(last.args[1]) THEN "TypeError"
                      ELSE IF Milli(last.args[1]) <= 0 THEN "ValueError" ELSE "ok")
    /\ Succeeded("area") => Called.area = last.args[1]
C9_Area ==
    /\ []C9_AreaInv
    /\ [][\A p \in DOMAIN peaks :
             peaks'[p].area # peaks[p].area =>
                 last'.op = "area" /\ last'.peak = p /\ last'.exc = "ok"]_vars

\* C9's case: a rejected area (<= 0) after an accepted one, which is kept.
C9_Witness ==
    /\ last.op = "area" /\ last.exc = "ValueError"
    /\ Called.area = IntV(3)

\* The outcome the bounds setter owes a value.
BoundsOutcome(value) ==
    IF ~is_sequence(value) THEN "TypeError"
    ELSE IF Len(value.items) # 3 THEN "ValueError"
    ELSE IF \E i \in 1..3 : ~IsInt(value.items[i]) THEN "TypeError"
    ELSE "ok"
\* The value a bounds or set_bounds call was given.
BoundsGiven(call) == IF call.op = "bounds" THEN call.args[1] ELSE TupleV(call.args)

\* C10: bounds is None or a 3-tuple of ints; setting it to a sequence of
\* three ints stores, and reading it then returns, the tuple of the same
\* ints in the same order; a non-sequence or a non-int element raises
\* TypeError, another length ValueError, and the bounds are kept.
C10_BoundsInv ==
    /\ \A p \in DOMAIN peaks :
          \/ peaks[p].pt_bounds = None
          \/ /\ peaks[p].pt_bounds.t = "tuple"
             /\ Len(peaks[p].pt_bounds.items) = 3
             /\ \A i \in 1..3 : IsInt(peaks[p].pt_bounds.items[i])
    /\ last.op \in {"bounds", "set_bounds"} =>
          /\ last.exc = BoundsOutcome(BoundsGiven(last))
          /\ last.exc = "ok" => Called.pt_bounds = TupleV(BoundsGiven(last).items)
PeakRef(q) == [t |-> "Peak", v |-> q, items |-> <<>>]
BoolV(b) == [t |-> "bool", v |-> IF b THEN 1 ELSE 0, items |-> <<>>]
NotImplemented == [t |-> "NotImplemented", v |-> 0, items |-> <<>>]
\* isinstance(other, self.__class__)
IsPeak(x) == x.t = "Peak"

\* MassSpectrum.__eq__ on the objects a and b of the heap: the same
\* mass_list and the same mass_spec.
MassSpectrum_eq(a, b, h) == h[a].mass_list = h[b].mass_list /\ h[a].mass_spec = h[b].mass_spec

\* a == b of Python on the values a peak's properties return: numbers by
\* value (73 == 73.0), tuples element by element, mass spectra by
\* MassSpectrum.__eq__, anything else by type and content.
PyEq(a, b, h) ==
    IF IsNumber(a) /\ IsNumber(b) THEN Milli(a) = Milli(b)
    ELSE IF IsMassSpectrum(a) /\ IsMassSpectrum(b) THEN MassSpectrum_eq(a.v, b.v, h)
    ELSE IF a.t = "tuple" /\ b.t = "tuple"
    THEN /\ Len(a.items) = Len(b.items)
         /\ \A i \in 1..Len(a.items) : Milli(a.items[i]) = Milli(b.items[i])
    ELSE a = b

\* An __eq__ that compares is_outlier as well.
peak_eq_with_outlier(pk, h, other, pks) ==
    IF IsPeak(other)
    THEN LET o == pks[other.v]
         IN  Return(BoolV(/\ pk.UID = o.UID
                          /\ PyEq(pk.pt_bounds, o.pt_bounds, h)
                          /\ pk.rt = o.rt
                          /\ PyEq(pk.mass_spectrum, o.mass_spectrum, h)
                          /\ PyEq(pk.area, o.area, h)
                          /\ PyEq(pk.ic_mass, o.ic_mass, h)
                          /\ pk.is_outlier = o.is_outlier), pk, h)
    ELSE Return(NotImplemented, pk, h)

\* Peak.__eq__: other is a value or a reference into the peaks pks.
peak_eq(pk, h, other, pks) ==
    IF IsPeak(other)
    THEN LET o == pks[other.v]
         IN  Return(BoolV(/\ pk.UID = o.UID
                          /\ PyEq(pk.pt_bounds, o.pt_bounds, h)
                          /\ pk.rt = o.rt
                          /\ PyEq(pk.mass_spectrum, o.mass_spectrum, h)
                          /\ PyEq(pk.area, o.area, h)
                          /\ PyEq(pk.ic_mass, o.ic_mass, h)), pk, h)
    ELSE Return(NotImplemented, pk, h)

\* Two peaks, constructed with either value of outlier, that the caller
\* changes and compares with each other and with values that are no peaks.
InE ==
    [ area |-> { FloatV(2500) },
      apex |-> { IntV(2) },
      ic_mass |-> { IntV(73), FloatV(73000) },
      ion |-> { IntV(73) },
      ion_area |-> { IntV(10) },
      data |-> { MatrixV },
      other |-> { IntV(5) } ]

ConstructedEq(h0) ==
    { c.peak : c \in { x \in { Construct(r[1], ms, r[2], outlier, h0) :
                                  r \in RtInputs, ms \in {None},
                                  outlier \in BOOLEAN } : x.exc = "ok" } }

InitEq ==
    /\ heap \in { <<sp, Free, Free>> : sp \in Spectra }
    /\ peaks \in [{1, 2} -> ConstructedEq(heap)]
    /\ last = NoCall

CallEq(in) ==
    \E p \in DOMAIN peaks, other \in in.other \cup { PeakRef(q) : q \in DOMAIN peaks } :
        Do(p, "__eq__", <<other>>, peak_eq(peaks[p], heap, other, peaks))

NextEq ==
    \/ SetArea(InE)
    \/ CallSetBounds(InE)
    \/ SetIcMass(InE)
    \/ CallSetIonArea(InE)
    \/ CallFindMassSpectrum(InE)
    \/ CallEq(InE)
SpecEq == InitEq /\ [][NextEq]_vars

\* The six values __eq__ reads off a peak compare equal, pair by pair.
SixEqual(a, b, h) ==
    \A f \in {"UID", "pt_bounds", "rt", "mass_spectrum", "area", "ic_mass"} :
        \/ a[f] = b[f]
        \/ f \in {"area", "ic_mass"} /\ IsNumber(a[f]) /\ IsNumber(b[f])
                                      /\ Milli(a[f]) = Milli(b[f])
        \/ f = "mass_spectrum" /\ HasSpectrum(a) /\ HasSpectrum(b)
                               /\ h[a[f].v] = h[b[f].v]

\* C11: comparing a peak with a peak returns True if and only if UID,
\* bounds, rt, mass_spectrum, area and ic_mass all compare equal, so peaks
\* differing only in is_outlier or ion_areas are equal; comparing with a
\* non-Peak returns NotImplemented; no comparison raises or changes a peak.
C11_Eq ==
    last.op = "__eq__" =>
        /\ last.exc = "ok"
        /\ IF IsPeak(last.args[1])
           THEN LET a == Called
                    b == peaks[last.args[1].v]
                IN  /\ last.ret = BoolV(SixEqual(a, b, heap))
                    /\ [a EXCEPT !.is_outlier = b.is_outlier, !.ion_areas = b.ion_areas] = b
                          => last.ret = BoolV(TRUE)
           ELSE last.ret = NotImplemented

\* C11's case: two peaks with different is_outlier and ion_areas, and an
\* ic_mass of 73 in one and 73.0 in the other, have compared equal.
C11_Witness ==
    /\ last.op = "__eq__" /\ IsPeak(last.args[1]) /\ last.args[1].v # last.peak
    /\ Called.is_outlier # peaks[last.args[1].v].is_outlier
    /\ Called.ion_areas # peaks[last.args[1].v].ion_areas
    /\ Called.ic_mass = IntV(73) /\ peaks[last.args[1].v].ic_mass = FloatV(73000)
    /\ Called.area = FloatV(2500)
    /\ last.ret = BoolV(TRUE)

\* ------------------------------------------------------------- construction
\* The arguments of Peak(rt, ms, minutes, outlier): ms absent, numbers
\* (0 among them), the caller's MassSpectrum, and empty and non-empty
\* strings, lists, tuples and dicts.
InC ==
    [ rt |-> { FloatV(12346), IntV(5), StrV(1) },
      ms |-> { None, IntV(0), IntV(73), FloatV(73500), CallerObj,
               StrV(0), StrV(1), ListV(<<>>), ListV(<<IntV(73)>>), TupleV(<<>>),
               DictV(<<>>), DictV(<< <<IntV(73), IntV(10)>> >>) } ]

\* p = Peak(rt, ms, minutes, outlier): the name p is bound to the new peak
\* when the constructor returns and keeps its peak when it raises.
CallConstruct(in) ==
    \E p \in DOMAIN peaks, rt \in in.rt, ms \in in.ms, minutes \in BOOLEAN,
       outlier \in BOOLEAN :
        LET r == Construct(rt, ms, minutes, outlier, heap)
        IN  Do(p, "__init__", <<rt, ms, BoolV(minutes), BoolV(outlier)>>,
               [r EXCEPT !.peak = IF r.exc = "ok" THEN r.peak ELSE peaks[p]])

NextConstruct == CallConstruct(InC)
SpecConstruct == Init /\ [][NextConstruct]_vars

\* C12: Peak(rt, ms, ...) with a numeric rt raises TypeError for every ms
\* that is neither None, a number nor a MassSpectrum, the empty string,
\* list, tuple and dict included; a numeric ms (0 included) becomes ic_mass
\* with mass_spectrum None, a MassSpectrum ms becomes mass_spectrum with
\* ic_mass None.
C12_Construct ==
    last.op = "__init__" /\ Len(last.args) = 4 /\ IsNumber(last.args[1]) =>
        LET ms == last.args[2]
        IN  IF ms = None THEN last.exc = "ok"
            ELSE IF IsNumber(ms)
            THEN last.exc = "ok" /\ Called.ic_mass = ms /\ Called.mass_spectrum = None
            ELSE IF IsMassSpectrum(ms)
            THEN last.exc = "ok" /\ Called.mass_spectrum = ms /\ Called.ic_mass = None
            ELSE last.exc = "TypeError"

\* ------------------------------------------------------------- ion areas
\* self._ion_areas[ion] of a dict with the given items: <<found, value>>.
DictLookup(items, key) ==
    LET at == { i \in 1..Len(items) : SameKey(items[i][1], key) }
    IN  IF at = {} THEN <<FALSE, None>> ELSE <<TRUE, items[CHOOSE i \in at : TRUE][2]>>

\* Peak.get_ion_area
get_ion_area(pk, h, ion) ==
    LET got == DictLookup(pk.ion_areas.items, ion)
    IN  IF got[1] THEN Return(got[2], pk, h) ELSE Return(None, pk, h)

\* A dict value DictV(items) is a dict object that only its holder refers
\* to; OwnIonAreas is the _ion_areas object of the peak called, itself.
OwnIonAreas == [t |-> "dict", v |-> 1, items |-> <<>>]

\* An ion_areas getter that returns the dict of the peak, not a copy.
ion_areas_get_itself(pk, h) ==
    IF Len(pk.ion_areas.items) = 0 THEN Raise("ValueError", pk, h)
    ELSE Return(OwnIonAreas, pk, h)

\* Peak.ion_areas (getter): copy.deepcopy makes a dict object of its own.
ion_areas_get(pk, h) ==
    IF Len(pk.ion_areas.items) = 0 THEN Raise("ValueError", pk, h)
    ELSE Return(DictV(pk.ion_areas.items), pk, h)

\* Ions 73 and 74 are set, with areas 10 and 2.5; ion 80 is only asked for.
InI ==
    [ ion |-> { IntV(73), IntV(74), FloatV(73500) },
      ion_area |-> { IntV(10), FloatV(2500), StrV(1) },
      asked |-> { IntV(73), FloatV(73000), IntV(74), IntV(80) } ]

CallGetIonArea(in) ==
    \E p \in DOMAIN peaks, ion \in in.asked :
        Do(p, "get_ion_area", <<ion>>, get_ion_area(peaks[p], heap, ion))
GetIonAreas ==
    \E p \in DOMAIN peaks : Do(p, "ion_areas_get", <<>>, ion_areas_get(peaks[p], heap))

\* returned[ion] = area by the caller, on the dict the ion_areas getter has
\* just returned: a write to the peak's dict when that is what was returned.
StoreInReturned(in) ==
    /\ last.op = "ion_areas_get" /\ last.exc = "ok"
    /\ \E ion \in in.ion, area \in in.ion_area :
          LET p == last.peak
              own == last.ret = OwnIonAreas
              d == IF own THEN peaks[p].ion_areas ELSE last.ret
              d2 == DictV(DictStore(d.items, ion, area))
          IN  /\ peaks' = IF own THEN [peaks EXCEPT ![p].ion_areas = d2] ELSE peaks
              /\ heap' = heap
              /\ last' = [op |-> "returned_store", peak |-> p, args |-> <<ion, area>>,
                          exc |-> "ok", ret |-> IF own THEN OwnIonAreas ELSE d2]

NextIons ==
    \/ CallSetIonArea(InI)
    \/ CallGetIonArea(InI)
    \/ GetIonAreas
    \/ StoreInReturned(InI)
SpecIons == Init /\ [][NextIons]_vars

\* The area a peak holds for an ion, None when it holds none.
AreaOf(pk, ion) ==
    LET items == pk.ion_areas.items
        at == { i \in 1..Len(items) :
                  Milli(items[i][1]) = Milli(ion) }
    IN  IF at = {} THEN None ELSE items[CHOOSE i \in at : TRUE][2]
IonKeys == { IntV(73), IntV(74), IntV(80) }

\* C13: the mapping starts empty; a successful set_ion_area(ion, area) makes
\* area the area of ion and changes no other ion's area, no other field and
\* no spectrum, a raising one changes nothing, and no read changes the
\* peak, so that get_ion_area(ion) returns the area of the most recent
\* successful set_ion_area for ion, and None, without raising, for an ion
\* never set; reading ion_areas raises ValueError while the mapping is
\* empty and otherwise returns a dict of its own with the same pairs, a
\* store into which leaves the peak as it is.
C13_IonAreasInv ==
    /\ last = NoCall => \A p \in DOMAIN peaks : peaks[p].ion_areas = DictV(<<>>)
    /\ \A p \in DOMAIN peaks : \A i \in 1..Len(peaks[p].ion_areas.items) :
          IsInt(peaks[p].ion_areas.items[i][1])
    /\ last.op = "get_ion_area" =>
          last.exc = "ok" /\ last.ret = AreaOf(Called, last.args[1])
    /\ last.op = "ion_areas_get" =>
          IF Called.ion_areas.items = <<>> THEN last.exc = "ValueError"
          ELSE last.exc = "ok" /\ last.ret = DictV(Called.ion_areas.items)
C13_IonAreas ==
    /\ []C13_IonAreasInv
    /\ [][/\ last'.op = "set_ion_area" =>
                LET was == peaks[last'.peak]
                    is == peaks'[last'.peak]
                IN  /\ heap' = heap
                    /\ [is EXCEPT !.ion_areas = was.ion_areas] = was
                    /\ IF last'.exc = "ok"
                       THEN /\ AreaOf(is, last'.args[1]) = last'.args[2]
                            /\ \A k \in IonKeys :
                                  k # last'.args[1] => AreaOf(is, k) = AreaOf(was, k)
                       ELSE is = was
          /\ last'.op # "set_ion_area" => peaks' = peaks /\ heap' = heap
         ]_vars

\* C13's case: ions 73 and 74 are set, 73 for the second time, and a store
\* into the dict that ion_areas returned has not reached the peak.
C13_Witness ==
    /\ last.op = "returned_store" /\ last.args = <<IntV(73), IntV(10)>>
    /\ Called.ion_areas = DictV(<< <<IntV(73), FloatV(2500)>>, <<IntV(74), IntV(10)>> >>)
    /\ last.ret = DictV(<< <<IntV(73), IntV(10)>>, <<IntV(74), IntV(10)>> >>)

\* ------------------------------------------------------------- nulling
\* One peak that takes the caller's MassSpectrum or an ic_mass, crops the
\* spectrum and nulls masses: those of the list, 58.0, the midpoints 55.25
\* and 65.25 of neighbouring masses, and 45 and 100 outside the range.
InN ==
    [ ic_mass |-> { IntV(73) },
      mass_spectrum |-> { CallerObj },
      crop |-> { <<IntV(50), FloatV(60500)>>, <<FloatV(60500), IntV(70)>> },
      null |-> { IntV(50), FloatV(55250), FloatV(58000), FloatV(65250), IntV(70),
                 IntV(45), IntV(100), StrV(1) } ]

NextNull ==
    \/ SetIcMass(InN)
    \/ SetMassSpectrum(InN)
    \/ CallCropMass(InN)
    \/ CallNullMass(InN)
SpecNull == Init /\ [][NextNull]_vars

\* The lowest of the indices of ml whose mass is nearest to m.
Nearest(ml, m) ==
    CHOOSE i \in 1..Len(ml) :
        /\ \A j \in 1..Len(ml) : Abs(ml[i] - m) <= Abs(ml[j] - m)
        /\ \A j \in 1..(i - 1) : Abs(ml[j] - m) > Abs(ml[i] - m)

\* C14: null_mass(mass) on a peak with a mass spectrum, min(mass_list) <=
\* mass <= max(mass_list), leaves the peak its spectrum and the spectrum
\* its mass_list, and sets to 0 the intensity at the lowest index among
\* the masses nearest to mass, and no other; a mass outside the range
\* raises IndexError, and a peak without a mass spectrum NameError.
C14_NullMass ==
    [][last'.op = "null_mass" =>
          LET p == last'.peak
              pk == peaks[p]
              mass == last'.args[1]
          IN  IF ~HasSpectrum(pk) THEN last'.exc = "NameError"
              ELSE IsNumber(mass) /\ Len(MassList(pk, heap)) > 0 =>
                   LET ml == MassList(pk, heap)
                       ms == MassSpec(pk, heap)
                   IN  IF SeqMin(ml) <= Milli(mass) /\ Milli(mass) <= SeqMax(ml)
                       THEN /\ peaks'[p].mass_spectrum = pk.mass_spectrum
                            /\ MassList(peaks'[p], heap') = ml
                            /\ MassSpec(peaks'[p], heap') =
                                  [i \in 1..Len(ms) |->
                                      IF i = Nearest(ml, Milli(mass)) THEN 0 ELSE ms[i]]
                       ELSE last'.exc = "IndexError"
      ]_vars

\* C14's case: 55.25, as far from 50 as from 60.5, has nulled the
\* intensity 5 of mass 50 and left that of mass 70.
C14_Witness ==
    /\ last.op = "null_mass" /\ last.args = <<FloatV(55250)>> /\ last.exc = "ok"
    /\ MassList(Called, heap) = <<50000, 60500, 70000>>
    /\ MassSpec(Called, heap) = <<0, 0, 1>>

\* C15: find_mass_spectrum(data, from_bounds) on an IntensityMatrix: with
\* from_bounds and no bounds set it raises NameError and leaves the peak as
\* it was; otherwise, for the index bounds[1] when from_bounds (whatever rt
\* is) and get_index_at_time(rt) when not (whatever the bounds are), if the
\* matrix has a scan at that index the peak's mass spectrum becomes the
\* spectrum of that scan, ic_mass None, and bounds, area, rt and ion_areas
\* stay as they were.
C15_FindMassSpectrum ==
    [][last'.op = "find_mass_spectrum" /\ IsIntensityMatrix(last'.args[1]) =>
          LET was == peaks[last'.peak]
              is == peaks'[last'.peak]
              from_bounds == last'.args[2] = IntV(1)
              ix == IF from_bounds THEN was.pt_bounds.items[2].v
                    ELSE get_index_at_time(was.rt)
          IN  IF from_bounds /\ was.pt_bounds = None
              THEN /\ last'.exc = "NameError"
                   /\ WholeState(is, heap') = WholeState(was, heap)
              ELSE 0 <= ix /\ ix < Len(MatrixRows) =>
                   /\ HasSpectrum(is)
                   /\ MassList(is, heap') = MatrixMasses
                   /\ MassSpec(is, heap') = MatrixRows[ix + 1]
                   /\ is.ic_mass = None
                   /\ is.pt_bounds = was.pt_bounds /\ is.area = was.area
                   /\ is.rt = was.rt /\ is.ion_areas = was.ion_areas
      ]_vars

\* C15's case: a peak with rt 12.346 (scan 0 by time), an area, an ion
\* area and bounds with apex 2 has taken the spectrum of scan 2.
C15_Witness ==
    /\ last.op = "find_mass_spectrum" /\ last.args = <<MatrixV, IntV(1)>>
    /\ last.exc = "ok"
    /\ Called.rt = 12346 /\ Called.pt_bounds = TupleV(<<IntV(0), IntV(2), IntV(0)>>)
    /\ Called.area # None /\ Called.ion_areas # DictV(<<>>)
    /\ MassSpec(Called, heap) = MatrixRows[3]
    /\ Called.ic_mass = None

====
